---- MODULE Spec2Model ----
(***************************************************************************)
(* SiteStruct: the scrape-job store, the HTTP routes over it, the          *)
(* background pipeline processWebsite, the LLM result repair of            *)
(* organizeContent and the export renderers.                               *)
(*                                                                         *)
(* JavaScript values are modelled as tagged records [t |-> <type>, v |->   *)
(* <payload>] so that the code's dynamic typing (undefined, null, falsy    *)
(* defaults, optional chaining) is computed and never assumed.  Strings    *)
(* are sequences of atoms; a number with a fraction (a confidence) is kept *)
(* in hundredths.                                                          *)
(***************************************************************************)
EXTENDS Integers, Sequences, FiniteSets, TLC

VARIABLES
    scrapeJobs,   \* MemStorage.scrapeJobs: id -> ScrapeJob
    run,          \* one entry per call of processWebsite: its position and locals
    post,         \* POST /api/scrape handlers suspended at `await createScrapeJob`
    now,          \* the wall clock read by Date.now() and new Date()
    res,          \* the HTTP response sent by the last step, if it sent one
    calls,        \* per job: how often each collaborator was invoked, and the
                  \* processingOptions its submission asked for
    updates,      \* per job: the status written by each updateScrapeJob that found it
    geminiModule, \* which of the two copies of services/gemini is linked
    rin,          \* renderer harness: the StructuredContent handed to the renderer
    rout          \* renderer harness: what the renderer returned

vars == <<scrapeJobs, run, post, now, res, calls, updates, geminiModule, rin, rout>>

\* ---------------------------------------------------------------- bounds
MaxJobs == 2
MaxHttpJobs == 1
MaxTimedJobs == 1
MaxClock == 1
MaxSections == 3
MaxWideJobs == 1
MaxContent == 4
MaxMatches == 3
MaxElements == 3

\* ------------------------------------------------------- JavaScript values
Undef == [t |-> "undefined"]
JNull == [t |-> "null"]
Num(n) == [t |-> "number", v |-> n]
Bool(b) == [t |-> "boolean", v |-> b]
Str(s) == [t |-> "string", v |-> s]
Arr(a) == [t |-> "array", v |-> a]
Obj(o) == [t |-> "object", v |-> o]
Date(n) == [t |-> "date", v |-> n]

\* ToBoolean: undefined, null, 0, "" and false are falsy.
Truthy(j) ==
    CASE j.t \in {"undefined", "null"} -> FALSE
      [] j.t = "number" -> j.v # 0
      [] j.t = "string" -> j.v # <<>>
      [] j.t = "boolean" -> j.v
      [] OTHER -> TRUE

\* a || b
Or(a, b) == IF Truthy(a) THEN a ELSE b

\* o.k where o is known not to be null or undefined
Get(o, k) == IF o.t = "object" /\ k \in DOMAIN o.v THEN o.v[k] ELSE Undef

\* o?.k
OptGet(o, k) == IF o.t \in {"undefined", "null"} THEN Undef ELSE Get(o, k)

\* x.length of a value that is not null or undefined
Length(x) == IF x.t \in {"string", "array"} THEN Num(Len(x.v)) ELSE Undef

\* {...a, ...b} on records
Spread(a, b) ==
    [k \in DOMAIN a \cup DOMAIN b |-> IF k \in DOMAIN b THEN b[k] ELSE a[k]]

IsWs(c) == c \in {" ", "\n", "\t"}

RECURSIVE WsRuns(_)
\* the number of maximal whitespace runs of a string
WsRuns(s) ==
    IF s = <<>> THEN 0
    ELSE (IF IsWs(s[1]) /\ (Len(s) = 1 \/ ~IsWs(s[2])) THEN 1 ELSE 0) + WsRuns(Tail(s))

\* s.split(/\s+/).length: one more piece than there are whitespace runs
SplitLength(s) == WsRuns(s) + 1

\* ---------------------------------------------------------- shared/schema.ts
DefaultMaxContentLength == 10000
DefaultTimeout == 60000

OptionDefaults ==
    [extractMainContent |-> Bool(TRUE), includeMetadata |-> Bool(TRUE),
     processImages |-> Bool(FALSE), aiOrganization |-> Bool(TRUE),
     maxContentLength |-> Num(DefaultMaxContentLength), timeout |-> Num(DefaultTimeout)]

OptionType(k) == IF k \in {"maxContentLength", "timeout"} THEN "number" ELSE "boolean"

\* processingOptionsSchema.parse succeeds: every known key present has its type
OptionsValid(p) ==
    /\ p.t = "object"
    /\ \A k \in DOMAIN OptionDefaults \cap DOMAIN p.v : p.v[k].t = OptionType(k)

\* processingOptionsSchema.parse: known keys kept or defaulted, unknown keys stripped
\* (z.object), no range is checked
processingOptionsSchema(p) ==
    Obj([k \in DOMAIN OptionDefaults |->
            IF k \in DOMAIN p.v THEN p.v[k] ELSE OptionDefaults[k]])

\* insertScrapeJobSchema.parse succeeds: url is a string, outputFormat a string if given
insertScrapeJobSchema(body) ==
    /\ Get(body, "url").t = "string"
    /\ Get(body, "outputFormat").t \in {"string", "undefined"}

\* ------------------------------------------------------ services/scraper.ts
\* mutant: any url that parses is accepted, whatever its scheme
validateUrlAnyScheme(url) ==
    /\ url.t = "string"
    /\ Len(url.v) = 2

\* A url is a string of atoms <<scheme, rest>>; new URL(url) throws on anything
\* that is not of that form.
validateUrl(url) ==
    /\ url.t = "string"
    /\ Len(url.v) = 2
    /\ url.v[1] \in {"http:", "https:"}

\* ------------------------------------------------------------- storage.ts
\* MemStorage.getScrapeJob
getScrapeJob(jobs, id) == IF id \in DOMAIN jobs THEN Obj(jobs[id]) ELSE Undef

\* MemStorage.createScrapeJob: the store after the insert; id is the fresh UUID
createScrapeJob(jobs, insertJob, id, clock) ==
    [k \in DOMAIN jobs \cup {id} |->
        IF k = id
        THEN Spread(insertJob,
                 [id |-> Num(id), status |-> Str(<<"pending">>),
                  originalContent |-> JNull, structuredContent |-> JNull,
                  metadata |-> JNull, wordCount |-> JNull, processingTime |-> JNull,
                  createdAt |-> Date(clock), completedAt |-> JNull])
        ELSE jobs[k]]

\* MemStorage.updateScrapeJob: the store after the update
updateScrapeJob(jobs, id, upd) ==
    IF id \notin DOMAIN jobs THEN jobs
    ELSE [jobs EXCEPT ![id] = Spread(jobs[id], upd)]

\* what updateScrapeJob returns
updateScrapeJobResult(jobs, id, upd) ==
    IF id \notin DOMAIN jobs THEN Undef ELSE Obj(Spread(jobs[id], upd))

\* the log of updates that found their job
Logged(log, jobs, id, upd) ==
    IF id \in DOMAIN jobs /\ id \in DOMAIN log
    THEN [log EXCEPT ![id] = Append(@, upd.status)]
    ELSE log

\* ------------------------------------------------------- services/gemini.ts
\* A thrown Error; everything else is a returned value.
Throw(m) == [t |-> "throw", msg |-> m]
IsThrow(x) == x.t = "throw"
Nullish(x) == x.t \in {"undefined", "null"}

DefaultConfidence == 50
DefaultConfidenceLegacy == 80

\* section.topics?.length || 0, as a number
TopicLength(section) ==
    LET topics == Get(section, "topics")
        n == IF Nullish(topics) THEN Undef ELSE Length(topics)
    IN  Or(n, Num(0)).v

RECURSIVE TopicSum(_)
\* sections.reduce((acc, section) => acc + (section.topics?.length || 0), 0)
TopicSum(secs) == IF secs = <<>> THEN 0 ELSE TopicLength(secs[1]) + TopicSum(Tail(secs))

\* organizeContent after JSON.parse, server/services/gemini.ts: every metadata
\* field is taken from the LLM's own metadata
RepairCurrent(result, rawContent, clock) ==
    IF Nullish(result) THEN Throw("TypeError")
    ELSE LET md == Get(result, "metadata") IN
         Obj([title |-> Or(Get(result, "title"), Str(<<"Untitled Content">>)),
              summary |-> Or(Get(result, "summary"), Str(<<"Content summary not available">>)),
              sections |-> Or(Get(result, "sections"), Arr(<<>>)),
              metadata |-> Obj(
                 [wordCount |-> Or(OptGet(md, "wordCount"), Num(0)),
                  sectionCount |-> Or(OptGet(md, "sectionCount"), Num(0)),
                  topicCount |-> Or(OptGet(md, "topicCount"), Num(0)),
                  confidence |-> Or(OptGet(md, "confidence"), Num(DefaultConfidence)),
                  extractedAt |-> Date(clock)])])

\* organizeContent after JSON.parse, the second copy (unnamed/part_003): the
\* counts are recomputed from result.sections; reduce on a value that is not an
\* array, or a null section, is a TypeError
RepairLegacy(result, rawContent, clock) ==
    IF Nullish(result) THEN Throw("TypeError")
    ELSE LET md == Get(result, "metadata")
             secs == Get(result, "sections")
         IN
         IF ~Nullish(secs) /\ secs.t # "array" THEN Throw("TypeError")
         ELSE IF secs.t = "array" /\ \E i \in 1..Len(secs.v) : Nullish(secs.v[i])
         THEN Throw("TypeError")
         ELSE
         Obj([title |-> Or(Get(result, "title"), Str(<<"Untitled Content">>)),
              summary |-> Or(Get(result, "summary"), Str(<<"No summary available">>)),
              sections |-> IF secs.t = "array" THEN secs ELSE Arr(<<>>),
              metadata |-> Obj(
                 [wordCount |-> Or(OptGet(md, "wordCount"), Num(SplitLength(rawContent.v))),
                  sectionCount |-> Or(IF Nullish(secs) THEN Undef ELSE Length(secs), Num(0)),
                  topicCount |-> Or(IF Nullish(secs) THEN Undef ELSE Num(TopicSum(secs.v)),
                                    Num(0)),
                  confidence |-> Or(OptGet(md, "confidence"), Num(DefaultConfidenceLegacy)),
                  extractedAt |-> Date(clock)])])

\* JSON.parse(text || "{}"): an empty text is parsed as "{}", a text that is not
\* JSON is a SyntaxError
ParseResponse(outcome) ==
    IF outcome.kind = "unparseable" THEN Throw("SyntaxError")
    ELSE IF outcome.kind = "empty" THEN Obj(<<>>)
    ELSE outcome.json

\* organizeContent from the main LLM call's outcome on: the call throws, the text
\* does not parse, or the parsed value is repaired.  Every error is caught and
\* rethrown as "Failed to organize content with AI".
organizeContent(module, outcome, rawContent, clock) ==
    LET r == IF outcome.kind = "throw" THEN Throw("llm")
             ELSE IF IsThrow(ParseResponse(outcome)) THEN ParseResponse(outcome)
             ELSE IF module = "current"
             THEN RepairCurrent(ParseResponse(outcome), rawContent, clock)
             ELSE RepairLegacy(ParseResponse(outcome), rawContent, clock)
    IN  IF IsThrow(r) THEN Throw("Failed to organize content with AI") ELSE r

\* A piece of rendered output: a literal of the template, or an interpolated value.
Lit(s) == [t |-> "lit", lit |-> s]
Repeat(c, n) == [t |-> "repeat", ch |-> c, n |-> n]

RECURSIVE MarkdownSectionsTrailing(_, _)
\* mutant: the separator follows the last section too
MarkdownSectionsTrailing(secs, i) ==
    IF i > Len(secs) THEN <<>>
    ELSE <<Lit("## "), Get(secs[i], "title"), Lit("\n\n"),
           Get(secs[i], "content"), Lit("\n\n"), Lit("---\n\n")>>
         \o MarkdownSectionsTrailing(secs, i + 1)

RECURSIVE MarkdownSections(_, _)
\* the forEach of generateMarkdown from index i on
MarkdownSections(secs, i) ==
    IF i > Len(secs) THEN <<>>
    ELSE <<Lit("## "), Get(secs[i], "title"), Lit("\n\n"),
           Get(secs[i], "content"), Lit("\n\n")>>
         \o (IF i - 1 < Len(secs) - 1 THEN <<Lit("---\n\n")>> ELSE <<>>)
         \o MarkdownSections(secs, i + 1)

\* generateMarkdown; sections.forEach on a value that is not an array, or a
\* property read of a null section, throws
generateMarkdown(module, sc) ==
    LET secs == Get(sc, "sections")
        summary == Get(sc, "summary")
        md == Get(sc, "metadata")
    IN  IF secs.t # "array" \/ \E i \in 1..Len(secs.v) : Nullish(secs.v[i])
        THEN Throw("TypeError")
        ELSE IF module = "current"
        THEN Arr(<<Lit("# "), Get(sc, "title"), Lit("\n\n"), summary, Lit("\n\n")>>
                 \o MarkdownSections(secs.v, 1))
        ELSE IF Nullish(md) THEN Throw("TypeError")
        ELSE Arr(<<Lit("# "), Get(sc, "title"), Lit("\n\n")>>
                 \o (IF Truthy(summary) /\ summary # Str(<<"No summary available">>)
                     THEN <<summary, Lit("\n\n")>> ELSE <<>>)
                 \o MarkdownSections(secs.v, 1)
                 \o <<Lit("\n\n<!-- Content Statistics: "), Get(md, "wordCount"),
                      Lit(" words, "), Get(md, "sectionCount"),
                      Lit(" sections, extracted "), Get(md, "extractedAt"), Lit(" -->")>>)

RECURSIVE PlainSections(_, _, _)
\* the forEach of generatePlainText from index i on
PlainSections(module, secs, i) ==
    IF i > Len(secs) THEN <<>>
    ELSE (IF module = "current"
          THEN <<Get(secs[i], "title"), Lit("\n"),
                 Repeat("-", Length(Get(secs[i], "title"))), Lit("\n\n"),
                 Get(secs[i], "content"), Lit("\n\n")>>
               \o (IF i - 1 < Len(secs) - 1 THEN <<Lit("\n")>> ELSE <<>>)
          ELSE <<Get(secs[i], "title"), Lit("\n\n"), Get(secs[i], "content"), Lit("\n\n")>>
               \o (IF i - 1 < Len(secs) - 1 THEN <<Lit("---\n\n")>> ELSE <<>>))
         \o PlainSections(module, secs, i + 1)

\* generatePlainText
generatePlainText(module, sc) ==
    LET secs == Get(sc, "sections")
        summary == Get(sc, "summary")
        title == Get(sc, "title")
    IN  IF secs.t # "array" \/ \E i \in 1..Len(secs.v) : Nullish(secs.v[i])
        THEN Throw("TypeError")
        ELSE IF module = "current"
        THEN Arr(<<title, Lit("\n"), Repeat("=", Length(title)), Lit("\n\n"),
                   summary, Lit("\n\n")>>
                 \o PlainSections(module, secs.v, 1))
        ELSE Arr(<<title, Lit("\n\n")>>
                 \o (IF Truthy(summary) /\ summary # Str(<<"No summary available">>)
                     THEN <<summary, Lit("\n\n")>> ELSE <<>>)
                 \o PlainSections(module, secs.v, 1))

\* ------------------------------------- scrapeWebsite, the main-content selector
\* A text the page yields, by what it is the text of and its length after trim().
Txt(name, n) == [text |-> name, length |-> n]
EmptyText == Txt("", 0)

mainSelectors ==
    <<".faq, .faqs, .frequently-asked-questions",
      ".support, .help, .help-center, .knowledge-base",
      ".documentation, .docs, .doc-content",
      ".article-content, .support-article",
      ".question, .answer, .qa-content",
      "main", "article", "[role=main]", ".content", ".main-content", ".post-content",
      ".entry-content", "#content", "#main", ".page-content">>

\* the first entries of mainSelectors, "Support/FAQ specific selectors"
SpecificSelectors == 5
MinMainLength == 100
MinQaLength == 200

\* the text of $(selector).first() is long enough to be taken
Sufficient(doc, i) == i \in DOMAIN doc.matches /\ doc.matches[i].length > MinMainLength

RECURSIVE CascadeNoBreak(_, _)
\* mutant: the loop does not break, a later sufficient match overwrites an earlier one
CascadeNoBreak(doc, i) ==
    IF i > Len(mainSelectors) THEN EmptyText
    ELSE LET later == CascadeNoBreak(doc, i + 1)
         IN  IF later # EmptyText THEN later
             ELSE IF Sufficient(doc, i) THEN doc.matches[i]
             ELSE EmptyText

RECURSIVE Cascade(_, _)
\* `for (const selector of mainSelectors)` from entry i on: mainContent after the loop
Cascade(doc, i) ==
    IF i > Len(mainSelectors) THEN EmptyText
    ELSE IF Sufficient(doc, i) THEN doc.matches[i]
    ELSE Cascade(doc, i + 1)

\* mutant: the question-heading text is taken from 200 characters on
selectMainContentQaAtLeast(doc, extractMainContent) ==
    IF ~extractMainContent THEN doc.body
    ELSE LET mainContent == Cascade(doc, 1)
         IN  IF mainContent.length > 0 THEN mainContent
             ELSE IF doc.qa.length >= MinQaLength THEN doc.qa
             ELSE doc.body
\* the content scrapeWebsite selects before its cleanup: the cascade, the
\* question-heading fallback, the body
selectMainContent(doc, extractMainContent) ==
    IF ~extractMainContent THEN doc.body
    ELSE LET mainContent == Cascade(doc, 1)
         IN  IF mainContent.length > 0 THEN mainContent
             ELSE IF doc.qa.length > MinQaLength THEN doc.qa
             ELSE doc.body

\* ------------------------------------------------ createRawFormattedContent
\* The texts of the formatter are sequences of runs: n ordinary characters (a
\* word), n whitespace characters, one character n times, n sentence
\* terminators .!?  -- so that trim(), the two replace() calls, split() and
\* .length are computed on them.
W(s, n) == [k |-> "w", s |-> s, n |-> n]
Ws(s, n) == [k |-> "ws", s |-> s, n |-> n]
Run(c, n) == [k |-> "run", s |-> c, n |-> n]
End(c, n) == [k |-> "end", s |-> c, n |-> n]

RECURSIVE TextLen(_)
\* text.length
TextLen(t) == IF t = <<>> THEN 0 ELSE Head(t).n + TextLen(Tail(t))

RECURSIVE TrimStart(_)
TrimStart(t) == IF t # <<>> /\ Head(t).k = "ws" THEN TrimStart(Tail(t)) ELSE t

RECURSIVE TrimEnd(_)
TrimEnd(t) ==
    IF t # <<>> /\ t[Len(t)].k = "ws" THEN TrimEnd(SubSeq(t, 1, Len(t) - 1)) ELSE t

\* text.trim()
Trim(t) == TrimEnd(TrimStart(t))

RECURSIVE CollapseWs(_)
\* text.replace(/\s+/g, ' ')
CollapseWs(t) ==
    IF t = <<>> THEN <<>>
    ELSE IF Head(t).k # "ws" THEN <<Head(t)>> \o CollapseWs(Tail(t))
    ELSE IF Len(t) > 1 /\ t[2].k = "ws" THEN CollapseWs(Tail(t))
    ELSE <<Ws(" ", 1)>> \o CollapseWs(Tail(t))

RECURSIVE CollapseRuns(_)
\* text.replace(/(.)\1{3,}/g, '$1$1'); `.` does not match a line break
CollapseRuns(t) ==
    IF t = <<>> THEN <<>>
    ELSE (IF Head(t).k # "w" /\ Head(t).s # "\n" /\ Head(t).n >= 4
          THEN <<[Head(t) EXCEPT !.n = 2]>> ELSE <<Head(t)>>)
         \o CollapseRuns(Tail(t))

HeadingTags == {"h1", "h2", "h3", "h4", "h5", "h6"}
BlockTags == {"p", "div", "span", "li", "ul", "ol"}
HeadingMin == 5
HeadingMax == 200
BlockMin == 10
BodyMin == 20
AccumulateMax == 1000
FormattedMin == 100
SentenceMin == 20
SectionMin == 50
SectionMax == 500
FormattedMax == 2000

\* the filter on $('h1, h2, h3, h4, h5, h6')
ScannedHeading(el) ==
    /\ el.tag \in HeadingTags
    /\ TextLen(Trim(el.text)) > HeadingMin
    /\ TextLen(Trim(el.text)) < HeadingMax

RECURSIVE CollectUntilOther(_, _, _)
\* mutant: a sibling that is not a block element ends the loop instead of being skipped
CollectUntilOther(doc, j, contentLength) ==
    IF j > Len(doc) \/ doc[j].tag \notin BlockTags \/ ~(contentLength < AccumulateMax)
    THEN <<>>
    ELSE LET text == Trim(doc[j].text)
         IN  IF TextLen(text) > BlockMin
             THEN text \o <<Ws(" ", 1)>>
                  \o CollectUntilOther(doc, j + 1, contentLength + TextLen(text))
             ELSE CollectUntilOther(doc, j + 1, contentLength)

RECURSIVE Collect(_, _, _)
\* the while loop over heading.next(): nextContent from sibling j on
Collect(doc, j, contentLength) ==
    IF j > Len(doc) \/ doc[j].tag \in HeadingTags \/ ~(contentLength < AccumulateMax)
    THEN <<>>
    ELSE LET text == Trim(doc[j].text)
         IN  IF doc[j].tag \in BlockTags /\ TextLen(text) > BlockMin
             THEN text \o <<Ws(" ", 1)>> \o Collect(doc, j + 1, contentLength + TextLen(text))
             ELSE Collect(doc, j + 1, contentLength)

\* what headings.each adds to `formatted` for the heading at h
HeadingBlock(doc, h) ==
    LET headingText == Trim(doc[h].text)
        nextContent == CollapseRuns(CollapseWs(Trim(Collect(doc, h + 1, 0))))
    IN  IF TextLen(nextContent) > BodyMin
        THEN <<W("##", 2), Ws(" ", 1)>> \o headingText \o <<Ws("\n", 1)>>
             \o nextContent \o <<Ws("\n", 2)>>
        ELSE <<>>

RECURSIVE HeadingPass(_, _)
\* headings.each from element h on
HeadingPass(doc, h) ==
    IF h > Len(doc) THEN <<>>
    ELSE (IF ScannedHeading(doc[h]) THEN HeadingBlock(doc, h) ELSE <<>>)
         \o HeadingPass(doc, h + 1)

RECURSIVE SplitSentences(_, _, _)
\* content.split(/[.!?]+/) from run i on, `piece` being the piece under way
SplitSentences(t, i, piece) ==
    IF i > Len(t) THEN <<piece>>
    ELSE IF t[i].k # "end" THEN SplitSentences(t, i + 1, Append(piece, t[i]))
    ELSE IF i > 1 /\ t[i - 1].k = "end" THEN SplitSentences(t, i + 1, piece)
    ELSE <<piece>> \o SplitSentences(t, i + 1, <<>>)

LongSentence(piece) == TextLen(Trim(piece)) > SentenceMin

\* sentence.includes('?')
IncludesQuestionMark(t) == \E i \in 1..Len(t) : t[i].k = "end" /\ t[i].s = "?"

\* word.toLowerCase(), for the words the inputs hold
Lower(w) ==
    CASE w = "How" -> "how" [] w = "What" -> "what" [] w = "You" -> "you" [] OTHER -> w

\* sentence.toLowerCase().startsWith('how to' | 'what is' | 'you can')
StartsWithOpener(t) ==
    /\ Len(t) >= 3
    /\ t[1].k = "w" /\ t[2] = Ws(" ", 1) /\ t[3].k = "w"
    /\ <<Lower(t[1].s), Lower(t[3].s)>> \in
           {<<"how", "to">>, <<"what", "is">>, <<"you", "can">>}

SentenceEnd == <<End(".", 1), Ws(" ", 1)>>
TopicHead == <<W("##", 2), Ws(" ", 1), W("Topic", 5), Ws("\n", 1)>>
AdditionalHead ==
    <<W("##", 2), Ws(" ", 1), W("Additional", 10), Ws(" ", 1), W("Information", 11),
      Ws("\n", 1)>>

RECURSIVE SentenceLoop(_, _, _, _)
\* the for loop over sentences from i on, then the final section
SentenceLoop(sentences, i, formatted, currentSection) ==
    IF i > Len(sentences) \/ ~(TextLen(formatted) < FormattedMax)
    THEN IF TextLen(currentSection) > SectionMin
         THEN formatted \o AdditionalHead \o Trim(currentSection) \o <<Ws("\n", 2)>>
         ELSE formatted
    ELSE LET sentence == Trim(sentences[i])
         IN  IF IncludesQuestionMark(sentence) \/ StartsWithOpener(sentence)
             THEN SentenceLoop(sentences, i + 1,
                      IF TextLen(currentSection) > SectionMin
                      THEN formatted \o TopicHead \o Trim(currentSection) \o <<Ws("\n", 2)>>
                      ELSE formatted,
                      sentence \o SentenceEnd)
             ELSE IF TextLen(currentSection) > 0 /\ TextLen(currentSection) < SectionMax
             THEN SentenceLoop(sentences, i + 1, formatted,
                               currentSection \o sentence \o SentenceEnd)
             ELSE SentenceLoop(sentences, i + 1, formatted, currentSection)

\* `formatted` before the return: the heading pass, then the sentence pass if
\* that gave less than 100 characters
Formatted(doc, content) ==
    LET formatted == HeadingPass(doc, 1)
    IN  IF TextLen(formatted) < FormattedMin
        THEN SentenceLoop(SelectSeq(SplitSentences(content, 1, <<>>), LongSentence),
                          1, formatted, <<>>)
        ELSE formatted

\* mutant: `return formatted`, without the fallback to the content
createRawFormattedContentNoFallback(doc, content) == Formatted(doc, content)

\* createRawFormattedContent($, content); doc is the sequence of sibling
\* elements the headings sit among
createRawFormattedContent(doc, content) ==
    IF Formatted(doc, content) # <<>> THEN Formatted(doc, content) ELSE content

\* -------------------------------------------------- scrapeWebsite, its tail
TruncationMarker == <<".", ".", ".">>

RECURSIVE NormalizeWhitespace(_)
\* content.replace(/\s+/g, ' ')
NormalizeWhitespace(s) ==
    IF s = <<>> THEN <<>>
    ELSE IF ~IsWs(s[1]) THEN <<s[1]>> \o NormalizeWhitespace(Tail(s))
    ELSE IF Len(s) > 1 /\ IsWs(s[2]) THEN NormalizeWhitespace(Tail(s))
    ELSE <<" ">> \o NormalizeWhitespace(Tail(s))

RECURSIVE TrimText(_)
\* content.trim()
TrimText(s) ==
    IF s = <<>> THEN <<>>
    ELSE IF IsWs(s[1]) THEN TrimText(Tail(s))
    ELSE IF IsWs(s[Len(s)]) THEN TrimText(SubSeq(s, 1, Len(s) - 1))
    ELSE s

RECURSIVE RunLength(_)
\* how often the first character of s is repeated at its start
RunLength(s) ==
    IF Len(s) > 1 /\ s[2] = s[1] THEN 1 + RunLength(Tail(s)) ELSE 1

RepeatMin == 4

RECURSIVE SqueezeRepeats(_)
\* content.replace(/(.)\1{3,}/g, '$1$1')
SqueezeRepeats(s) ==
    IF s = <<>> THEN <<>>
    ELSE LET n == RunLength(s)
         IN  (IF n >= RepeatMin /\ s[1] # "\n" THEN <<s[1], s[1]>> ELSE SubSeq(s, 1, n))
             \o SqueezeRepeats(SubSeq(s, n + 1, Len(s)))

\* "Enhanced content cleanup": whitespace runs become one space (after which no
\* line break is left for the second replace), the ends are trimmed, a
\* character repeated four times or more is kept twice
cleanup(s) == TrimText(SqueezeRepeats(TrimText(NormalizeWhitespace(s))))
\* String.prototype.substring: an index below 0 counts as 0, one beyond the
\* length as the length, and the smaller of the two is the start
substring(s, from, to) ==
    LET Clamp(i) == IF i < 0 THEN 0 ELSE IF i > Len(s) THEN Len(s) ELSE i
        lo == IF Clamp(from) <= Clamp(to) THEN Clamp(from) ELSE Clamp(to)
        hi == IF Clamp(from) <= Clamp(to) THEN Clamp(to) ELSE Clamp(from)
    IN  SubSeq(s, lo + 1, hi)

\* scrapeWebsite from the cleaned content on: the length cap, the raw-formatted
\* text when asked for, the metadata.  `page` is what the renderer and the
\* selector produced: title, description, the normalized content, and the text
\* createRawFormattedContent makes of it.
scrapeWebsite(url, page, options, clock) ==
    LET maxContentLength ==
            IF Get(options, "maxContentLength").t = "undefined"
            THEN DefaultMaxContentLength ELSE Get(options, "maxContentLength").v
        rawFormatted ==
            IF Get(options, "rawFormatted").t = "undefined"
            THEN Bool(FALSE) ELSE Get(options, "rawFormatted")
        content ==
            IF Len(page.content) > maxContentLength
            THEN substring(page.content, 0, maxContentLength) \o TruncationMarker
            ELSE page.content
        result ==
            [url |-> url, title |-> Str(page.title), description |-> Str(page.description),
             content |-> Str(content),
             metadata |-> Obj([scrapedAt |-> Date(clock),
                               wordCount |-> Num(SplitLength(content)),
                               hasImages |-> Bool(page.hasImages),
                               links |-> Num(page.links)])]
    IN  IF Truthy(rawFormatted)
        THEN Obj(Spread(result, [rawFormatted |-> Str(page.rawFormatted)]))
        ELSE Obj(result)

\* ---------------------------------------------------------- processWebsite
StPending == Str(<<"pending">>)
StProcessing == Str(<<"processing">>)
StCompleted == Str(<<"completed">>)
StFailed == Str(<<"failed">>)

\* the options object processWebsite hands to scrapeWebsite (routes, 233-240)
ScrapeOptions(options) ==
    Obj([k \in {"extractMainContent", "includeMetadata", "processImages", "rawFormatted",
                "maxContentLength", "timeout"} |-> Get(options, k)])

\* mutant: the basic structure carries the LLM path's default confidence
BasicStructureUnsure(scraped, clock) ==
    Obj([title |-> Get(scraped, "title"),
         summary |-> Or(Get(scraped, "description"), Str(<<"No summary available">>)),
         sections |-> Arr(<<Obj([title |-> Str(<<"Main Content">>),
                                 content |-> Get(scraped, "content"),
                                 priority |-> Str(<<"primary">>),
                                 topics |-> Arr(<<>>)])>>),
         metadata |-> Obj([wordCount |-> Get(Get(scraped, "metadata"), "wordCount"),
                           sectionCount |-> Num(1),
                           topicCount |-> Num(0),
                           confidence |-> Num(DefaultConfidence),
                           extractedAt |-> Date(clock)])])

\* "Basic structure without AI"
BasicStructure(scraped, clock) ==
    Obj([title |-> Get(scraped, "title"),
         summary |-> Or(Get(scraped, "description"), Str(<<"No summary available">>)),
         sections |-> Arr(<<Obj([title |-> Str(<<"Main Content">>),
                                 content |-> Get(scraped, "content"),
                                 priority |-> Str(<<"primary">>),
                                 topics |-> Arr(<<>>)])>>),
         metadata |-> Obj([wordCount |-> Get(Get(scraped, "metadata"), "wordCount"),
                           sectionCount |-> Num(1),
                           topicCount |-> Num(0),
                           confidence |-> Num(100),
                           extractedAt |-> Date(clock)])])

\* mutant: the completing update forgets completedAt
CompletedUpdateNoStamp(scraped, structured, options, startTime, clock) ==
    [status |-> StCompleted,
     originalContent |-> Get(scraped, "content"),
     structuredContent |-> structured,
     metadata |-> Obj(Spread(Get(scraped, "metadata").v,
                             [processingOptions |-> options,
                              rawFormatted |-> Get(scraped, "rawFormatted")])),
     wordCount |-> Get(Get(structured, "metadata"), "wordCount"),
     processingTime |-> Num(clock - startTime)]

\* mutant: the completing update writes the status and the structure, the other
\* result fields being left to a later write
CompletedUpdateLate(scraped, structured, options, startTime, clock) ==
    [status |-> StCompleted,
     structuredContent |-> structured,
     completedAt |-> Date(clock)]
\* "Step 3: Update job with results"
CompletedUpdate(scraped, structured, options, startTime, clock) ==
    [status |-> StCompleted,
     originalContent |-> Get(scraped, "content"),
     structuredContent |-> structured,
     metadata |-> Obj(Spread(Get(scraped, "metadata").v,
                             [processingOptions |-> options,
                              rawFormatted |-> Get(scraped, "rawFormatted")])),
     wordCount |-> Get(Get(structured, "metadata"), "wordCount"),
     processingTime |-> Num(clock - startTime),
     completedAt |-> Date(clock)]

\* mutant: the catch block puts the job back in the queue
FailedUpdateRequeue(error, clock) ==
    [status |-> StPending,
     metadata |-> Obj([error |-> Str(<<error.msg>>), failedAt |-> Date(clock)])]

\* mutant: the catch block records no failure time
FailedUpdateNoTime(error, clock) ==
    [status |-> StFailed,
     metadata |-> Obj([error |-> Str(<<error.msg>>)])]

\* the catch block
FailedUpdate(error, clock) ==
    [status |-> StFailed,
     metadata |-> Obj([error |-> Str(<<error.msg>>), failedAt |-> Date(clock)])]

\* ------------------------------------------------------------------ inputs
HttpUrl == Str(<<"http:", "//site">>)
Urls == {HttpUrl, Str(<<"ftp:", "//site">>), Str(<<"not a url">>)}

RawOptions ==
    {Undef,
     Obj([aiOrganization |-> Bool(FALSE)]),
     Obj([aiOrganization |-> Bool(FALSE), rawFormatted |-> Bool(TRUE)]),
     Obj([rawFormatted |-> Bool(TRUE), maxContentLength |-> Num(2)]),
     Obj([timeout |-> Str(<<"soon">>)])}

OutputFormats == {Undef, Str(<<"json">>), Str(<<"text">>)}

Bodies ==
    {Obj([url |-> u, processingOptions |-> o, outputFormat |-> f]) :
        u \in Urls, o \in RawOptions, f \in OutputFormats}
    \cup {Obj([processingOptions |-> Undef, outputFormat |-> Undef])}

\* what the renderer and the selector make of the page behind the url
Pages ==
    {[title |-> <<"T">>, description |-> <<>>, content |-> <<"a", " ", "b", " ", "c">>,
      rawFormatted |-> <<"## ", "a">>, hasImages |-> FALSE, links |-> 0],
     [title |-> <<"U">>, description |-> <<"D">>, content |-> <<>>,
      rawFormatted |-> <<>>, hasImages |-> TRUE, links |-> 1]}

SecA == Obj([title |-> Str(<<"A">>), content |-> Str(<<"a">>),
             priority |-> Str(<<"primary">>), topics |-> Arr(<<Str(<<"x">>)>>)])
SecB == Obj([title |-> Str(<<"B">>), content |-> Str(<<"b">>),
             priority |-> Str(<<"secondary">>),
             topics |-> Arr(<<Str(<<"y">>), Str(<<"z">>)>>)])
SecNoTopics == Obj([title |-> Str(<<"C">>), content |-> Str(<<"c">>)])

\* values JSON.parse can return for the main call's text
LlmResults ==
    {Obj([title |-> Str(<<"T">>), summary |-> Str(<<"S">>), sections |-> Arr(<<SecA, SecB>>),
          metadata |-> Obj([wordCount |-> Num(2), sectionCount |-> Num(2),
                            topicCount |-> Num(3), confidence |-> Num(90),
                            extractedAt |-> Str(<<"then">>)])]),
     Obj([title |-> Str(<<"T">>), sections |-> Arr(<<SecA, SecNoTopics>>),
          metadata |-> Obj([wordCount |-> Num(2), confidence |-> Num(0)])]),
     Obj([sections |-> Arr(<<SecB>>)]),
     Obj([sections |-> Str(<<"n", "o">>), metadata |-> JNull]),
     Obj([x |-> Num(0)]),
     JNull}

\* how the main LLM call can end
LlmOutcomes ==
    {[kind |-> "throw"], [kind |-> "unparseable"]}
    \cup {[kind |-> "text", json |-> r] : r \in LlmResults}

GeminiModules == {"current", "legacy"}

\* --------------------------------------------------------------- the routes
\* mutant: the generator hands out the same identifier again
randomUUIDReused(jobs) == 1
\* crypto.randomUUID(): an identifier no job has
randomUUID(jobs) == Cardinality(DOMAIN jobs) + 1

Reply(status, body) ==
    [status |-> status, contentType |-> "application/json", body |-> body,
     req |-> [route |-> "post"]]
NoReply == [status |-> 0]

\* POST /api/scrape up to `await storage.createScrapeJob(...)`
PostScrape(body) ==
    LET url == Get(body, "url")
        rawOptions == Or(Get(body, "processingOptions"), Obj(<<>>))
        outputFormat == Or(Get(body, "outputFormat"), Str(<<"markdown">>))
        id == randomUUID(scrapeJobs)
    IN
    /\ IF ~insertScrapeJobSchema(body)
       THEN /\ res' = Reply(400, Str(<<"Invalid request data">>))
            /\ UNCHANGED <<scrapeJobs, post, updates, calls>>
       ELSE IF ~validateUrl(url)
       THEN /\ res' = Reply(400, Str(<<"Invalid URL. Please provide a valid HTTP or HTTPS URL.">>))
            /\ UNCHANGED <<scrapeJobs, post, updates, calls>>
       ELSE IF ~OptionsValid(rawOptions)
       THEN /\ res' = Reply(400, Str(<<"Invalid request data">>))
            /\ UNCHANGED <<scrapeJobs, post, updates, calls>>
       ELSE /\ scrapeJobs' = createScrapeJob(scrapeJobs,
                                 [url |-> url,
                                  processingOptions |-> processingOptionsSchema(rawOptions),
                                  outputFormat |-> outputFormat], id, now)
            /\ post' = post \cup {id}
            /\ updates' = [k \in DOMAIN updates \cup {id} |->
                               IF k = id THEN <<>> ELSE updates[k]]
            /\ calls' = [k \in DOMAIN calls \cup {id} |->
                             IF k = id
                             THEN [scrape |-> 0, detect |-> 0, main |-> 0,
                                   asked |-> Get(body, "processingOptions")]
                             ELSE calls[k]]
            /\ res' = NoReply
    /\ UNCHANGED <<run, now, geminiModule, rin, rout>>

\* mutant: the handler awaits processWebsite, the reply is not sent at this step
PostScrapeResumeAwaits(id) ==
    /\ id \in post
    /\ post' = post \ {id}
    /\ scrapeJobs' = updateScrapeJob(scrapeJobs, id, [status |-> StProcessing])
    /\ updates' = Logged(updates, scrapeJobs, id, [status |-> StProcessing])
    /\ run' = [k \in DOMAIN run \cup {id} |->
                  IF k = id
                  THEN [pc |-> "started", startTime |-> 0, scraped |-> Undef, error |-> Undef,
                        isQandA |-> FALSE,
                        options |-> scrapeJobs[id].processingOptions,
                        url |-> scrapeJobs[id].url]
                  ELSE run[k]]
    /\ res' = NoReply
    /\ UNCHANGED <<now, calls, geminiModule, rin, rout>>
\* POST /api/scrape after the await: processWebsite runs up to its first await
\* (the update to processing), then the reply is sent
PostScrapeResume(id) ==
    /\ id \in post
    /\ post' = post \ {id}
    /\ scrapeJobs' = updateScrapeJob(scrapeJobs, id, [status |-> StProcessing])
    /\ updates' = Logged(updates, scrapeJobs, id, [status |-> StProcessing])
    /\ run' = [k \in DOMAIN run \cup {id} |->
                  IF k = id
                  THEN [pc |-> "started", startTime |-> 0, scraped |-> Undef, error |-> Undef,
                        isQandA |-> FALSE,
                        options |-> scrapeJobs[id].processingOptions,
                        url |-> scrapeJobs[id].url]
                  ELSE run[k]]
    /\ res' = Reply(200, Obj([jobId |-> Num(id), status |-> StProcessing]))
    /\ UNCHANGED <<now, calls, geminiModule, rin, rout>>

\* processWebsite: startTime, then the call of scrapeWebsite
ProcessStart(id) ==
    /\ id \in DOMAIN run
    /\ run[id].pc = "started"
    /\ run' = [run EXCEPT ![id].pc = "scraping", ![id].startTime = now]
    /\ calls' = [calls EXCEPT ![id].scrape = @ + 1]
    /\ res' = NoReply
    /\ UNCHANGED <<scrapeJobs, post, now, updates, geminiModule, rin, rout>>

\* the pipeline's write of its result
Finish(id, upd) ==
    /\ scrapeJobs' = updateScrapeJob(scrapeJobs, id, upd)
    /\ updates' = Logged(updates, scrapeJobs, id, upd)

\* scrapeWebsite returns; without AI organization the basic structure is built
\* and the job completed at once, with it organizeContent starts with its
\* detection call
ScrapeReturns(id, page) ==
    /\ id \in DOMAIN run
    /\ run[id].pc = "scraping"
    /\ LET r == run[id]
           scraped == scrapeWebsite(r.url, page, ScrapeOptions(r.options), now)
       IN  IF Truthy(Get(r.options, "aiOrganization"))
           THEN /\ run' = [run EXCEPT ![id].pc = "detecting", ![id].scraped = scraped]
                /\ calls' = [calls EXCEPT ![id].detect = @ + 1]
                /\ UNCHANGED <<scrapeJobs, updates>>
           ELSE /\ run' = [run EXCEPT ![id].pc = "done"]
                /\ Finish(id, CompletedUpdate(scraped, BasicStructure(scraped, now),
                                              r.options, r.startTime, now))
                /\ UNCHANGED calls
    /\ res' = NoReply
    /\ UNCHANGED <<post, now, geminiModule, rin, rout>>

\* mutant: after the catch block the run waits for the scrape again
ScrapeThrowsRetry(id) ==
    /\ id \in DOMAIN run
    /\ run[id].pc = "scraping"
    /\ run' = [run EXCEPT ![id].error = Throw("Failed to scrape website")]
    /\ Finish(id, FailedUpdate(Throw("Failed to scrape website"), now))
    /\ res' = NoReply
    /\ UNCHANGED <<post, now, calls, geminiModule, rin, rout>>

\* scrapeWebsite throws (launch, navigation, timeout, extraction): the catch block
ScrapeThrows(id) ==
    /\ id \in DOMAIN run
    /\ run[id].pc = "scraping"
    /\ run' = [run EXCEPT ![id].pc = "done", ![id].error = Throw("Failed to scrape website")]
    /\ Finish(id, FailedUpdate(Throw("Failed to scrape website"), now))
    /\ res' = NoReply
    /\ UNCHANGED <<post, now, calls, geminiModule, rin, rout>>

\* how the detection call can end: it answers FAQ, it answers GENERAL, or it
\* throws (or answers with nothing to read the text from, which throws as well)
DetectionOutcomes == {"FAQ", "GENERAL", "throw"}

\* mutant: the detection call sits in the outer try block only, its throw fails
\* the job
DetectionSettlesUncaught(id, detection) ==
    /\ id \in DOMAIN run
    /\ run[id].pc = "detecting"
    /\ IF detection = "throw"
       THEN /\ run' = [run EXCEPT ![id].pc = "done", ![id].scraped = Undef, ![id].isQandA = FALSE,
                                   ![id].error = Throw("Failed to organize content with AI")]
            /\ Finish(id, FailedUpdate(Throw("Failed to organize content with AI"), now))
            /\ UNCHANGED calls
       ELSE /\ run' = [run EXCEPT ![id].pc = "organizing",
                                   ![id].isQandA = (detection = "FAQ")]
            /\ calls' = [calls EXCEPT ![id].main = @ + 1]
            /\ UNCHANGED <<scrapeJobs, updates>>
    /\ res' = NoReply
    /\ UNCHANGED <<post, now, geminiModule, rin, rout>>

\* organizeContent: the detection call settles -- isQandA is set when its answer
\* holds "FAQ", a throw is swallowed by the inner catch and leaves it false --
\* then the prompt is chosen and the main call is made
DetectionSettles(id, detection) ==
    /\ id \in DOMAIN run
    /\ run[id].pc = "detecting"
    /\ run' = [run EXCEPT ![id].pc = "organizing", ![id].isQandA = (detection = "FAQ")]
    /\ calls' = [calls EXCEPT ![id].main = @ + 1]
    /\ UNCHANGED <<scrapeJobs, updates>>
    /\ res' = NoReply
    /\ UNCHANGED <<post, now, geminiModule, rin, rout>>

\* mutant: a failed organizeContent is called once more before the job is failed
MainCallSettlesRetry(id, outcome) ==
    /\ id \in DOMAIN run
    /\ run[id].pc = "organizing"
    /\ LET r == run[id]
           structured == organizeContent(geminiModule, outcome,
                                         Get(r.scraped, "content"), now)
       IN  IF IsThrow(structured) /\ calls[id].detect < 2
           THEN /\ run' = [run EXCEPT ![id].pc = "detecting"]
                /\ calls' = [calls EXCEPT ![id].detect = @ + 1]
                /\ UNCHANGED <<scrapeJobs, updates>>
           ELSE /\ run' = [run EXCEPT ![id].pc = "done", ![id].scraped = Undef, ![id].isQandA = FALSE,
                                       ![id].error = IF IsThrow(structured) THEN structured
                                                     ELSE Undef]
                /\ IF IsThrow(structured)
                   THEN Finish(id, FailedUpdate(structured, now))
                   ELSE Finish(id, CompletedUpdate(r.scraped, structured, r.options,
                                                   r.startTime, now))
                /\ UNCHANGED calls
    /\ res' = NoReply
    /\ UNCHANGED <<post, now, geminiModule, rin, rout>>
\* organizeContent: the main call settles; processWebsite completes or fails the job
MainCallSettles(id, outcome) ==
    /\ id \in DOMAIN run
    /\ run[id].pc = "organizing"
    /\ LET r == run[id]
           structured == organizeContent(geminiModule, outcome,
                                         Get(r.scraped, "content"), now)
       IN  /\ run' = [run EXCEPT ![id].pc = "done", ![id].scraped = Undef, ![id].isQandA = FALSE,
                                  ![id].error = IF IsThrow(structured) THEN structured
                                                ELSE Undef]
           /\ IF IsThrow(structured)
              THEN Finish(id, FailedUpdate(structured, now))
              ELSE Finish(id, CompletedUpdate(r.scraped, structured, r.options,
                                              r.startTime, now))
    /\ res' = NoReply
    /\ UNCHANGED <<post, now, calls, geminiModule, rin, rout>>

\* time passes
Tick ==
    /\ now < MaxClock
    /\ now' = now + 1
    /\ res' = NoReply
    /\ UNCHANGED <<scrapeJobs, run, post, calls, updates, geminiModule, rin, rout>>

Send(status, contentType, body) ==
    [status |-> status, contentType |-> contentType, body |-> body]

\* mutant: an unknown job is answered with an empty 200 reply
GetJobReplyEmpty(jobs, id) ==
    LET job == getScrapeJob(jobs, id)
    IN  IF ~Truthy(job) THEN Send(200, "application/json", JNull)
        ELSE Send(200, "application/json", job)
\* GET /api/scrape/:jobId
GetJobReply(jobs, id) ==
    LET job == getScrapeJob(jobs, id)
    IN  IF ~Truthy(job) THEN Send(404, "application/json", Str(<<"Scrape job not found">>))
        ELSE Send(200, "application/json", job)

\* mutant: the reply forgets .status(400)
NotReadyReplyOk == Send(200, "application/json", Str(<<"Content not ready for download">>))

\* the reply to a download of a job that is not completed
NotReadyReply == Send(400, "application/json", Str(<<"Content not ready for download">>))

\* GET /api/scrape/:jobId/download; a throw of a renderer reaches the route's catch
DownloadReply(module, jobs, id, format, type) ==
    LET job == getScrapeJob(jobs, id)
        structuredContent == Get(job, "structuredContent")
        metadata == Get(job, "metadata")
    IN  IF ~Truthy(job) THEN Send(404, "application/json", Str(<<"Scrape job not found">>))
        ELSE IF Get(job, "status") # StCompleted
        THEN NotReadyReply
        ELSE IF format = Str(<<"raw">>) /\ Truthy(OptGet(metadata, "rawFormatted"))
        THEN IF type = Str(<<"md">>)
             THEN Send(200, "text/markdown", Get(metadata, "rawFormatted"))
             ELSE Send(200, "text/plain", Get(metadata, "rawFormatted"))
        ELSE IF ~Truthy(structuredContent)
        THEN Send(400, "application/json", Str(<<"Structured content not available">>))
        ELSE IF Get(job, "outputFormat") = Str(<<"markdown">>) \/ type = Str(<<"md">>)
        THEN LET markdown == generateMarkdown(module, structuredContent)
             IN  IF IsThrow(markdown)
                 THEN Send(500, "application/json", Str(<<"Failed to download content">>))
                 ELSE Send(200, "text/markdown", markdown)
        ELSE IF Get(job, "outputFormat") = Str(<<"json">>) \/ type = Str(<<"json">>)
        THEN Send(200, "application/json", structuredContent)
        ELSE LET textContent == generatePlainText(module, structuredContent)
             IN  IF IsThrow(textContent)
                 THEN Send(500, "application/json", Str(<<"Failed to download content">>))
                 ELSE Send(200, "text/plain", textContent)

RecentLimit == 10

RECURSIVE InsertByCreation(_, _)
\* one step of the stable sort by createdAt, newest first
InsertByCreation(job, sorted) ==
    IF sorted = <<>> THEN <<job>>
    ELSE IF job.createdAt.v > Head(sorted).createdAt.v
    THEN <<job>> \o sorted
    ELSE <<Head(sorted)>> \o InsertByCreation(job, Tail(sorted))

RECURSIVE SortedJobs(_, _)
\* the jobs n..1 of the map (ids are insertion order) sorted by createdAt, newest first
SortedJobs(jobs, n) ==
    IF n = 0 THEN <<>>
    ELSE LET rest == SortedJobs(jobs, n - 1)
         IN  InsertByCreation(jobs[n], rest)

\* MemStorage.getRecentScrapeJobs
getRecentScrapeJobs(jobs, limit) ==
    LET all == SortedJobs(jobs, Cardinality(DOMAIN jobs))
    IN  SubSeq(all, 1, IF Len(all) < limit THEN Len(all) ELSE limit)

QueryFormats == {Undef, Str(<<"raw">>), Str(<<"structured">>)}
QueryTypes == {Undef, Str(<<"md">>), Str(<<"txt">>), Str(<<"json">>)}

\* GET /api/scrape/:jobId
GetJob(id) ==
    /\ res' = Spread(GetJobReply(scrapeJobs, id), [req |-> [route |-> "job", id |-> id]])
    /\ UNCHANGED <<scrapeJobs, run, post, now, calls, updates, geminiModule, rin, rout>>

\* GET /api/scrape/:jobId/download
Download(id, format, type) ==
    /\ res' = Spread(DownloadReply(geminiModule, scrapeJobs, id, format, type),
                     [req |-> [route |-> "download", id |-> id,
                               format |-> format, type |-> type]])
    /\ UNCHANGED <<scrapeJobs, run, post, now, calls, updates, geminiModule, rin, rout>>

\* GET /api/scrape
GetRecent ==
    /\ res' = Spread(Send(200, "application/json",
                          Arr(getRecentScrapeJobs(scrapeJobs, RecentLimit))),
                     [req |-> [route |-> "recent"]])
    /\ UNCHANGED <<scrapeJobs, run, post, now, calls, updates, geminiModule, rin, rout>>

\* ------------------------------------------------------- the specifications
Init ==
    /\ scrapeJobs = <<>>
    /\ run = <<>>
    /\ post = {}
    /\ now = 0
    /\ res = NoReply
    /\ calls = <<>>
    /\ updates = <<>>
    /\ geminiModule \in GeminiModules
    /\ rin = Undef
    /\ rout = Undef

\* a body the POST route accepts
Accepted(body) ==
    /\ insertScrapeJobSchema(body)
    /\ validateUrl(Get(body, "url"))
    /\ OptionsValid(Or(Get(body, "processingOptions"), Obj(<<>>)))

JobCount == Cardinality(DOMAIN scrapeJobs)

\* POST /api/scrape with one of `bodies`, at most n jobs in the store
Submit(bodies, n) ==
    \E body \in bodies :
        /\ Accepted(body) => JobCount < n
        /\ PostScrape(body)

\* the steps of the handlers and pipeline runs in flight
Pipeline(n, pages, outcomes, detections) ==
    \/ \E id \in 1..n : PostScrapeResume(id)
    \/ \E id \in 1..n : ProcessStart(id)
    \/ \E id \in 1..n, page \in pages : ScrapeReturns(id, page)
    \/ \E id \in 1..n : ScrapeThrows(id)
    \/ \E id \in 1..n, detection \in detections : DetectionSettles(id, detection)
    \/ \E id \in 1..n, outcome \in outcomes : MainCallSettles(id, outcome)

\* the routes that read
Reads(n) ==
    \/ \E id \in 1..(n + 1) : GetJob(id)
    \/ \E id \in 1..(n + 1), format \in QueryFormats, type \in QueryTypes :
          Download(id, format, type)
    \/ GetRecent

\* Several jobs side by side, over the bodies that differ in what the pipeline
\* does and every outcome of the collaborators.
CoreBodies ==
    {b \in Bodies : /\ Get(b, "outputFormat") = Undef
                    /\ Get(b, "processingOptions") \in
                          {Undef, Obj([aiOrganization |-> Bool(FALSE),
                                       rawFormatted |-> Bool(TRUE)])}}

Next ==
    \/ Submit(CoreBodies, MaxJobs)
    \/ Pipeline(MaxJobs, Pages, LlmOutcomes, DetectionOutcomes)

Spec == Init /\ [][Next]_vars

\* The reading routes beside the pipeline, over every output format and the
\* outcomes that differ in what a download does.
HttpBodies ==
    {b \in Bodies : /\ Get(b, "url") \in {Undef, HttpUrl}
                    /\ Get(b, "processingOptions") \in
                          {Undef, Obj([aiOrganization |-> Bool(FALSE)])}}
HttpPages == {pg \in Pages : pg.content # <<>>}
HttpOutcomes ==
    {o \in LlmOutcomes :
        o.kind = "text" => o.json \in {r \in LlmResults :
                                          Get(r, "summary") # Undef \/ Get(r, "metadata") = JNull}}

NextHttp ==
    \/ Submit(HttpBodies, MaxHttpJobs)
    \/ Pipeline(MaxHttpJobs, HttpPages, HttpOutcomes, DetectionOutcomes)
    \/ Reads(MaxHttpJobs)

SpecHttp == Init /\ [][NextHttp]_vars

\* The pipeline under a running clock.
NextTimed ==
    \/ Submit(CoreBodies, MaxTimedJobs)
    \/ Pipeline(MaxTimedJobs, Pages, LlmOutcomes, DetectionOutcomes)
    \/ GetRecent
    \/ Tick

SpecTimed == Init /\ [][NextTimed]_vars

\* One job at a time over the submissions and LLM answers at the edges: options
\* at and beyond the documented ranges, a request for the raw-formatted text, an
\* empty answer, and every kind of metadata.confidence.
RangeOptions ==
    {Obj([aiOrganization |-> Bool(FALSE), maxContentLength |-> Num(m)]) :
        m \in {-1, 2, 999, 1000, 50000, 50001}}
    \cup {Obj([aiOrganization |-> Bool(FALSE), timeout |-> Num(t)]) :
             t \in {29999, 30000, 300000, 300001}}

WideBodies ==
    {Obj([url |-> HttpUrl, processingOptions |-> o, outputFormat |-> Undef]) :
        o \in RangeOptions \cup {Undef, Obj([rawFormatted |-> Bool(TRUE)]),
                                 Obj([aiOrganization |-> Bool(FALSE)]),
                                 Obj([aiOrganization |-> Bool(FALSE),
                                      rawFormatted |-> Bool(TRUE)])}}

ConfidenceResults ==
    {Obj([title |-> Str(<<"T">>), summary |-> Str(<<"S">>), sections |-> Arr(<<SecA>>),
          metadata |-> Obj([wordCount |-> Num(1), sectionCount |-> Num(1),
                            topicCount |-> Num(1), confidence |-> c])]) :
        c \in {Num(0), Num(100), Num(-10), Num(150), Str(<<"high">>)}}

WideOutcomes ==
    LlmOutcomes \cup {[kind |-> "empty"]}
    \cup {[kind |-> "text", json |-> r] : r \in ConfidenceResults}

NextWide ==
    \/ Submit(WideBodies, MaxWideJobs)
    \/ Pipeline(MaxWideJobs, Pages, WideOutcomes, DetectionOutcomes)

SpecWide == Init /\ [][NextWide]_vars

\* The pipeline with the progress its code guarantees.  The handler and
\* processWebsite run on once scheduled; scrapeWebsite gives its timeout to the
\* page (setDefaultTimeout, goto) and so returns or throws.  organizeContent hands
\* no timeout to either LLM call and nothing else bounds them: no step of theirs
\* is promised.
NextLive ==
    \/ Submit(CoreBodies, MaxTimedJobs)
    \/ Pipeline(MaxTimedJobs, Pages, LlmOutcomes, DetectionOutcomes)

Progress ==
    /\ WF_vars(\E id \in 1..MaxTimedJobs : PostScrapeResume(id))
    /\ WF_vars(\E id \in 1..MaxTimedJobs : ProcessStart(id))
    /\ WF_vars(\E id \in 1..MaxTimedJobs :
                  \/ \E page \in Pages : ScrapeReturns(id, page)
                  \/ ScrapeThrows(id))

SpecLive == Init /\ [][NextLive]_vars /\ Progress

\* One job at a time while the classification call of organizeContent fails
\* every time it is made.
NextDetect ==
    \/ Submit(CoreBodies, MaxWideJobs)
    \/ Pipeline(MaxWideJobs, Pages, LlmOutcomes, {"throw"})

SpecDetect == Init /\ [][NextDetect]_vars

\* The export renderer on its own, over every StructuredContent within the bounds.
RECURSIVE SeqsUpTo(_, _)
SeqsUpTo(S, n) ==
    IF n = 0 THEN {<<>>}
    ELSE LET shorter == SeqsUpTo(S, n - 1)
         IN  shorter \cup {Append(q, x) : q \in shorter, x \in S}

RenderInputs ==
    {Obj([title |-> Str(<<"T">>), summary |-> sm, sections |-> Arr(secs),
          metadata |-> Obj([wordCount |-> Num(2), sectionCount |-> Num(Len(secs)),
                            topicCount |-> Num(TopicSum(secs)), confidence |-> Num(80),
                            extractedAt |-> Date(0)])]) :
        sm \in {Str(<<"S">>), Str(<<>>), Str(<<"No summary available">>)},
        secs \in SeqsUpTo({SecA, SecB, SecNoTopics}, MaxSections)}

InitRender ==
    /\ scrapeJobs = <<>>
    /\ run = <<>>
    /\ post = {}
    /\ now = 0
    /\ res = NoReply
    /\ calls = <<>>
    /\ updates = <<>>
    /\ geminiModule \in GeminiModules
    /\ rin \in RenderInputs
    /\ rout = Undef

\* generateMarkdown(rin)
RenderMarkdown ==
    /\ rout = Undef
    /\ rout' = generateMarkdown(geminiModule, rin)
    /\ UNCHANGED <<scrapeJobs, run, post, now, res, calls, updates, geminiModule, rin>>

NextRender == RenderMarkdown

SpecRender == InitRender /\ [][NextRender]_vars

\* The tail of scrapeWebsite on its own, over every selected text up to
\* MaxContent characters and every maxContentLength around it, the negative ones
\* the options schema lets through included.
ContentAlphabet == {"a", " ", "."}

ScrapeInputs(maxContent) ==
    {[page |-> [title |-> <<"T">>, description |-> <<>>, content |-> c,
                rawFormatted |-> <<>>, hasImages |-> FALSE, links |-> 0],
      options |-> o] :
        c \in SeqsUpTo(ContentAlphabet, maxContent),
        o \in {Obj(<<>>)} \cup {Obj([maxContentLength |-> Num(m)]) :
                                  m \in -1..(maxContent + 1)}}

InitScrape ==
    /\ scrapeJobs = <<>>
    /\ run = <<>>
    /\ post = {}
    /\ now = 0
    /\ res = NoReply
    /\ calls = <<>>
    /\ updates = <<>>
    /\ geminiModule = "current"
    /\ rin \in ScrapeInputs(MaxContent)
    /\ rout = Undef

\* scrapeWebsite(url, rin.options) on the page rin.page, from the cleanup of the
\* selected text on
ScrapeTail ==
    /\ rout = Undef
    /\ rout' = scrapeWebsite(HttpUrl, [rin.page EXCEPT !.content = cleanup(@)],
                              rin.options, now)
    /\ UNCHANGED <<scrapeJobs, run, post, now, res, calls, updates, geminiModule, rin>>

NextScrape == ScrapeTail

SpecScrape == InitScrape /\ [][NextScrape]_vars

\* The main-content selector on its own: every document in which at most
\* MaxMatches of the selectors match, each with a text at, one over or two over
\* the minimum length, and a question-heading text at or just over its own.
SelectDoc(S, lens, q) ==
    [matches |-> [i \in S |-> Txt(mainSelectors[i], lens[i])],
     qa |-> Txt("qaContent", q),
     body |-> Txt("body", 2 * MinQaLength)]

InitSelect ==
    /\ scrapeJobs = <<>>
    /\ run = <<>>
    /\ post = {}
    /\ now = 0
    /\ res = NoReply
    /\ calls = <<>>
    /\ updates = <<>>
    /\ geminiModule = "current"
    /\ \E S \in SUBSET (1..Len(mainSelectors)) :
          /\ Cardinality(S) <= MaxMatches
          /\ \E lens \in [S -> {MinMainLength, MinMainLength + 1, MinMainLength + 2}],
                q \in {MinQaLength, MinQaLength + 1}, e \in BOOLEAN :
                rin = [doc |-> SelectDoc(S, lens, q), extractMainContent |-> e]
    /\ rout = Undef

\* the selection of scrapeWebsite on the document rin.doc
SelectMain ==
    /\ rout = Undef
    /\ rout' = selectMainContent(rin.doc, rin.extractMainContent)
    /\ UNCHANGED <<scrapeJobs, run, post, now, res, calls, updates, geminiModule, rin>>

NextSelect == SelectMain

SpecSelect == InitSelect /\ [][NextSelect]_vars

\* createRawFormattedContent on its own: every run of at most MaxElements sibling
\* elements drawn from headings and blocks at and around the lengths the code
\* tests, with a cleaned content that is tiny, made of plain sentences, or holds
\* question openers.
Heading(n) == [tag |-> "h2", text |-> <<Ws(" ", 1), W("Heading", n), Ws("\n", 1)>>]
Block(tag, n) == [tag |-> tag, text |-> <<W("body", n)>>]
UntidyBlock ==
    [tag |-> "div",
     text |-> <<Ws("\n", 2), W("left", 8), Ws(" ", 3), Run("-", 6), Ws("\n", 1),
                W("right", 9), Ws(" ", 1)>>]

RawElements ==
    {Heading(n) : n \in {HeadingMin, HeadingMin + 1, HeadingMax - 1, HeadingMax}}
    \cup {Block("p", n) : n \in {BlockMin, BlockMin + 1, BodyMin, BodyMin + 1, AccumulateMax}}
    \cup {Block("table", BodyMin + 1), UntidyBlock}

RawContents ==
    {<<W("tiny", 4)>>,
     <<W("plain", 120), End(".", 1)>>,
     <<W("How", 3), Ws(" ", 1), W("to", 2), Ws(" ", 1), W("reset", 30), End(".", 1),
       Ws(" ", 1), W("then", 40), End("!", 2), Ws(" ", 1), W("what", 4), Ws(" ", 1),
       W("is", 2), Ws(" ", 1), W("next", 20), End("?", 1)>>}

RawInputs(maxElements) ==
    {[doc |-> d, content |-> c] :
        d \in SeqsUpTo(RawElements, maxElements), c \in RawContents}
    \cup {[doc |-> <<>>, content |-> <<>>]}

InitRaw ==
    /\ scrapeJobs = <<>>
    /\ run = <<>>
    /\ post = {}
    /\ now = 0
    /\ res = NoReply
    /\ calls = <<>>
    /\ updates = <<>>
    /\ geminiModule = "current"
    /\ rin \in RawInputs(MaxElements)
    /\ rout = Undef

\* createRawFormattedContent($, content)
FormatRaw ==
    /\ rout = Undef
    /\ rout' = Str(createRawFormattedContent(rin.doc, rin.content))
    /\ UNCHANGED <<scrapeJobs, run, post, now, res, calls, updates, geminiModule, rin>>

NextRaw == FormatRaw

SpecRaw == InitRaw /\ [][NextRaw]_vars

\* scrapeWebsite step by step, for what becomes of its browser session: rout is
\* the call under way -- where it stands, the `browser` variable, what the try
\* block is about to return or throw, and what made it throw.
BrowserInputs ==
    {[page |-> pg, options |-> o] :
        pg \in Pages,
        o \in {Obj(<<>>), Obj([rawFormatted |-> Bool(TRUE)]),
               Obj([maxContentLength |-> Num(2)]), Obj([extractMainContent |-> Bool(FALSE)])}}

InitBrowser ==
    /\ scrapeJobs = <<>>
    /\ run = <<>>
    /\ post = {}
    /\ now = 0
    /\ res = NoReply
    /\ calls = <<>>
    /\ updates = <<>>
    /\ geminiModule = "current"
    /\ rin \in BrowserInputs
    /\ rout = [pc |-> "launching", browser |-> "undefined", pending |-> Undef,
               cause |-> "none"]

\* the catch block: whatever was thrown is rethrown as "Failed to scrape website"
Caught(cause) ==
    [rout EXCEPT !.pc = "finally", !.pending = Throw("Failed to scrape website"),
                 !.cause = cause]

\* `browser = await puppeteer.launch(...)` returns
LaunchReturns ==
    /\ rout.pc = "launching"
    /\ rout' = [rout EXCEPT !.pc = "navigating", !.browser = "open"]
    /\ UNCHANGED <<scrapeJobs, run, post, now, res, calls, updates, geminiModule, rin>>

\* puppeteer.launch throws: `browser` was never assigned
LaunchThrows ==
    /\ rout.pc = "launching"
    /\ rout' = Caught("launch")
    /\ UNCHANGED <<scrapeJobs, run, post, now, res, calls, updates, geminiModule, rin>>

\* newPage, setUserAgent, setDefaultTimeout and goto return
NavigateReturns ==
    /\ rout.pc = "navigating"
    /\ rout' = [rout EXCEPT !.pc = "extracting"]
    /\ UNCHANGED <<scrapeJobs, run, post, now, res, calls, updates, geminiModule, rin>>

\* one of them throws: no page, a navigation error, or the timeout
NavigateThrows(cause) ==
    /\ rout.pc = "navigating"
    /\ rout' = Caught(cause)
    /\ UNCHANGED <<scrapeJobs, run, post, now, res, calls, updates, geminiModule, rin>>

\* page.content() and the extraction return: `return result`
ExtractReturns ==
    /\ rout.pc = "extracting"
    /\ rout' = [rout EXCEPT !.pc = "finally",
                            !.pending = scrapeWebsite(HttpUrl, rin.page, rin.options, now)]
    /\ UNCHANGED <<scrapeJobs, run, post, now, res, calls, updates, geminiModule, rin>>

\* page.content() or the extraction throws
ExtractThrows ==
    /\ rout.pc = "extracting"
    /\ rout' = Caught("extraction")
    /\ UNCHANGED <<scrapeJobs, run, post, now, res, calls, updates, geminiModule, rin>>

\* mutant: the session is closed at the end of the try block only
ScraperFinallyOnReturn ==
    /\ rout.pc = "finally"
    /\ rout' = [rout EXCEPT !.pc = "done",
                            !.browser = IF @ = "open" /\ ~IsThrow(rout.pending)
                                        THEN "closed" ELSE @]
    /\ UNCHANGED <<scrapeJobs, run, post, now, res, calls, updates, geminiModule, rin>>

\* the finally block, `if (browser) await browser.close()`; then the pending
\* return or throw leaves the function
ScraperFinally ==
    /\ rout.pc = "finally"
    /\ rout' = [rout EXCEPT !.pc = "done",
                            !.browser = IF @ = "open" THEN "closed" ELSE @]
    /\ UNCHANGED <<scrapeJobs, run, post, now, res, calls, updates, geminiModule, rin>>

NavigationFailures == {"newPage", "navigation", "timeout"}

NextBrowser ==
    \/ LaunchReturns
    \/ LaunchThrows
    \/ NavigateReturns
    \/ \E cause \in NavigationFailures : NavigateThrows(cause)
    \/ ExtractReturns
    \/ ExtractThrows
    \/ ScraperFinally

SpecBrowser == InitBrowser /\ [][NextBrowser]_vars
\* ================================================================ the claims
Terminal(st) == st \in {StCompleted, StFailed}
StatusSteps == {<<StPending, StProcessing>>, <<StProcessing, StCompleted>>,
                <<StProcessing, StFailed>>}

\* C1: every job is created pending and its stored status only ever moves
\* pending -> processing -> completed or pending -> processing -> failed; no job
\* skips processing, goes back, or leaves completed or failed.
C1_StatusMonotonic ==
    [][\A id \in DOMAIN scrapeJobs' :
          IF id \in DOMAIN scrapeJobs
          THEN \/ scrapeJobs'[id].status = scrapeJobs[id].status
               \/ <<scrapeJobs[id].status, scrapeJobs'[id].status>> \in StatusSteps
          ELSE scrapeJobs'[id].status = StPending]_vars

C1_Witness ==
    /\ \E id \in DOMAIN scrapeJobs : scrapeJobs[id].status = StCompleted
    /\ \E id \in DOMAIN scrapeJobs : scrapeJobs[id].status = StFailed

\* C2 as claimed: completedAt is non-null exactly when the status is completed or failed.
C2_CompletedAtIffTerminal ==
    \A id \in DOMAIN scrapeJobs :
        (scrapeJobs[id].completedAt # JNull) <=> Terminal(scrapeJobs[id].status)

\* C2, amended: completedAt is non-null exactly when the status is completed; a
\* failed job keeps completedAt null and carries its failure time in metadata.failedAt.
C2_CompletedAtIffCompleted ==
    \A id \in DOMAIN scrapeJobs :
        /\ (scrapeJobs[id].completedAt # JNull) <=> scrapeJobs[id].status = StCompleted
        /\ scrapeJobs[id].status = StFailed =>
               Get(scrapeJobs[id].metadata, "failedAt").t = "date"

C2_Witness ==
    \E id \in DOMAIN scrapeJobs :
        /\ scrapeJobs[id].status = StFailed
        /\ scrapeJobs[id].completedAt = JNull
        /\ Get(scrapeJobs[id].metadata, "failedAt").v > scrapeJobs[id].createdAt.v

\* C3: updateScrapeJob writes a job once to enter processing and once to enter a
\* terminal state, in that order and nothing else, and no step changes any field
\* of a job that is completed or failed.
C3_WrittenOnceEach ==
    [][\A id \in DOMAIN scrapeJobs' :
          /\ updates'[id] = (CASE scrapeJobs'[id].status = StPending -> <<>>
                               [] scrapeJobs'[id].status = StProcessing -> <<StProcessing>>
                               [] OTHER -> <<StProcessing, scrapeJobs'[id].status>>)
          /\ (id \in DOMAIN scrapeJobs /\ Terminal(scrapeJobs[id].status)) =>
                 (scrapeJobs'[id] = scrapeJobs[id] /\ updates'[id] = updates[id])]_vars

C3_Witness ==
    /\ \A id \in 1..MaxJobs : id \in DOMAIN scrapeJobs /\ Terminal(scrapeJobs[id].status)
    /\ \E id \in DOMAIN scrapeJobs : updates[id] = <<StProcessing, StCompleted>>
    /\ \E id \in DOMAIN scrapeJobs : updates[id] = <<StProcessing, StFailed>>

\* C4: a pipeline run that caught an error from scrapeWebsite or organizeContent
\* has left its job failed, with the error description and the failure time in
\* metadata and with structuredContent, originalContent, wordCount and
\* processingTime null.
C4_FailureKeepsNothing ==
    \A id \in DOMAIN run :
        (run[id].pc = "done" /\ IsThrow(run[id].error)) =>
            /\ scrapeJobs[id].status = StFailed
            /\ Get(scrapeJobs[id].metadata, "error") = Str(<<run[id].error.msg>>)
            /\ Get(scrapeJobs[id].metadata, "failedAt").t = "date"
            /\ DOMAIN scrapeJobs[id].metadata.v = {"error", "failedAt"}
            /\ scrapeJobs[id].structuredContent = JNull
            /\ scrapeJobs[id].originalContent = JNull
            /\ scrapeJobs[id].wordCount = JNull
            /\ scrapeJobs[id].processingTime = JNull

C4_Witness ==
    /\ \E id \in DOMAIN run :
          run[id].pc = "done" /\ run[id].error = Throw("Failed to scrape website")
    /\ \E id \in DOMAIN run :
          /\ run[id].pc = "done"
          /\ run[id].error = Throw("Failed to organize content with AI")
          /\ calls[id].scrape = 1

\* the step is the reply to a download request for a job in the store
DownloadServed ==
    /\ res'.status # 0
    /\ res'.req.route = "download"
    /\ res'.req.id \in DOMAIN scrapeJobs

\* C5: a download request for a job that is pending, processing or failed is
\* answered 400 with a JSON error message, sends no content, and changes no job.
C5_NotReadyRejected ==
    [][(DownloadServed /\ scrapeJobs[res'.req.id].status # StCompleted) =>
          /\ res'.status = 400
          /\ res'.contentType = "application/json"
          /\ res'.body = Str(<<"Content not ready for download">>)
          /\ scrapeJobs' = scrapeJobs]_vars

C5_Witness ==
    /\ res.status = 400
    /\ res.req.route = "download"
    /\ res.req.id \in DOMAIN scrapeJobs
    /\ scrapeJobs[res.req.id].status = StFailed

\* C6 as claimed: a download request with format=raw for a completed job whose
\* metadata holds no raw-formatted text is answered with an error and no content.
C6_RawWithoutRawRejected ==
    [][(/\ DownloadServed
        /\ res'.req.format = Str(<<"raw">>)
        /\ scrapeJobs[res'.req.id].status = StCompleted
        /\ ~Truthy(OptGet(scrapeJobs[res'.req.id].metadata, "rawFormatted"))) =>
          /\ res'.status >= 400
          /\ res'.contentType = "application/json"]_vars

\* C7 as claimed: a download that is not raw, for a completed job with structured
\* content, is rendered in the requested type whatever the stored outputFormat:
\* json is the StructuredContent itself, md is generateMarkdown of it, txt is
\* generatePlainText of it.
C7_RenderedAsRequested ==
    [][(/\ DownloadServed
        /\ res'.req.format # Str(<<"raw">>)
        /\ scrapeJobs[res'.req.id].status = StCompleted
        /\ Truthy(scrapeJobs[res'.req.id].structuredContent)) =>
          LET sc == scrapeJobs[res'.req.id].structuredContent
              type == res'.req.type
          IN  /\ type = Str(<<"json">>) =>
                    (res'.contentType = "application/json" /\ res'.body = sc)
              /\ type = Str(<<"md">>) =>
                    (res'.contentType = "text/markdown"
                     /\ res'.body = generateMarkdown(geminiModule, sc))
              /\ type = Str(<<"txt">>) =>
                    (res'.contentType = "text/plain"
                     /\ res'.body = generatePlainText(geminiModule, sc))]_vars

Separator == Lit("---\n\n")
Count(out, x) == Cardinality({i \in 1..Len(out) : out[i] = x})
FirstHeading(out) == CHOOSE p \in 1..Len(out) :
                        out[p] = Lit("## ") /\ \A q \in 1..(p - 1) : out[q] # Lit("## ")

\* C8: generateMarkdown renders the sections in list order, each as "## " title,
\* blank line, content, blank line; a "---" separator follows every section but
\* the last, so n sections give max(0, n-1) separators and none after the last.
C8_MarkdownSections ==
    rout # Undef =>
        LET secs == Get(rin, "sections").v
            n == Len(secs)
            out == rout.v
        IN  /\ rout.t = "array"
            /\ Count(out, Lit("## ")) = n
            /\ Count(out, Separator) = (IF n = 0 THEN 0 ELSE n - 1)
            /\ n > 0 =>
                 \A k \in 1..n :
                    LET b == FirstHeading(out) + 6 * (k - 1)
                    IN  /\ b + 4 <= Len(out)
                        /\ out[b] = Lit("## ")
                        /\ out[b + 1] = Get(secs[k], "title")
                        /\ out[b + 2] = Lit("\n\n")
                        /\ out[b + 3] = Get(secs[k], "content")
                        /\ out[b + 4] = Lit("\n\n")
                        /\ IF k < n THEN out[b + 5] = Separator
                           ELSE b + 5 <= Len(out) => out[b + 5] # Separator

C8_Witness ==
    /\ rout # Undef
    /\ Len(Get(rin, "sections").v) = MaxSections
    /\ Count(rout.v, Separator) = MaxSections - 1

\* C9: a job completed with aiOrganization=false has exactly one section, titled
\* "Main Content", primary, without topics, whose content is the scraped content,
\* with sectionCount 1, topicCount 0 and confidence 1.0; and no LLM call is ever
\* made for a job submitted with aiOrganization=false.
C9_BasicStructure ==
    \A id \in DOMAIN scrapeJobs :
        ~Truthy(Get(scrapeJobs[id].processingOptions, "aiOrganization")) =>
            /\ calls[id].detect = 0 /\ calls[id].main = 0
            /\ scrapeJobs[id].status = StCompleted =>
                 LET sc == scrapeJobs[id].structuredContent
                     md == Get(sc, "metadata")
                 IN  /\ Get(sc, "sections") =
                            Arr(<<Obj([title |-> Str(<<"Main Content">>),
                                       content |-> scrapeJobs[id].originalContent,
                                       priority |-> Str(<<"primary">>),
                                       topics |-> Arr(<<>>)])>>)
                     /\ scrapeJobs[id].originalContent.t = "string"
                     /\ Get(md, "sectionCount") = Num(1)
                     /\ Get(md, "topicCount") = Num(0)
                     /\ Get(md, "confidence") = Num(100)

C9_Witness ==
    \E id \in DOMAIN scrapeJobs :
        /\ ~Truthy(Get(scrapeJobs[id].processingOptions, "aiOrganization"))
        /\ scrapeJobs[id].status = StCompleted
        /\ scrapeJobs[id].originalContent # Str(<<>>)

\* C10 as claimed: on every completed job metadata.sectionCount is the length of
\* sections and metadata.topicCount is the sum of the sections' topic counts.
C10_CountsMatchSections ==
    \A id \in DOMAIN scrapeJobs :
        scrapeJobs[id].status = StCompleted =>
            LET sc == scrapeJobs[id].structuredContent
                secs == Get(sc, "sections")
                md == Get(sc, "metadata")
            IN  /\ secs.t = "array"
                /\ Get(md, "sectionCount") = Num(Len(secs.v))
                /\ Get(md, "topicCount") = Num(TopicSum(secs.v))

\* C11 as claimed: the confidence of the StructuredContent of every completed job
\* is a number in [0,1] (0..100 hundredths), whatever metadata.confidence the LLM
\* returned.
C11_ConfidenceInUnitInterval ==
    \A id \in DOMAIN scrapeJobs :
        scrapeJobs[id].status = StCompleted =>
            LET c == Get(Get(scrapeJobs[id].structuredContent, "metadata"), "confidence")
            IN  c.t = "number" /\ c.v >= 0 /\ c.v <= 100

\* C12 as claimed: when the main LLM call returns a text that is not JSON,
\* organizeContent falls back to defaults and the job is completed; a job is
\* failed by organizeContent only when the call itself threw.
C12_UnparseableRecovered ==
    [][\A id \in DOMAIN run : \A outcome \in WideOutcomes :
          MainCallSettles(id, outcome) =>
              /\ outcome.kind = "unparseable" =>
                     /\ scrapeJobs'[id].status = StCompleted
                     /\ scrapeJobs'[id].structuredContent.t = "object"
              /\ scrapeJobs'[id].status = StFailed => outcome.kind = "throw"]_vars

\* the ranges the submission form declares for the two numeric options
ContentLengthMin == 1000
ContentLengthMax == 50000
TimeoutMin == 30000
TimeoutMax == 300000

\* the body asks for a maxContentLength or a timeout outside its range
OutOfRange(body) ==
    LET o == Get(body, "processingOptions")
        m == Get(o, "maxContentLength")
        t == Get(o, "timeout")
    IN  \/ m.t = "number" /\ (m.v < ContentLengthMin \/ m.v > ContentLengthMax)
        \/ t.t = "number" /\ (t.v < TimeoutMin \/ t.v > TimeoutMax)

\* C13 as claimed: POST /api/scrape answers a submission whose maxContentLength
\* is outside [1000, 50000] or whose timeout is outside [30 s, 300 s] with an
\* error at once, and creates no job for it.
C13_OutOfRangeRejected ==
    [][\A body \in WideBodies :
          (OutOfRange(body) /\ PostScrape(body)) =>
              /\ res'.status = 400
              /\ scrapeJobs' = scrapeJobs
              /\ post' = post]_vars

\* a url with the two parts scheme and rest whose scheme is http or https
IsHttpUrl(u) == u.t = "string" /\ Len(u.v) = 2 /\ u.v[1] \in {"http:", "https:"}

\* C14: POST /api/scrape answers a submission whose url is missing, malformed or
\* not http/https with a 400 error; the step creates no job record and starts no
\* pipeline run.
C14_BadUrlRejected ==
    [][\A body \in CoreBodies :
          (~IsHttpUrl(Get(body, "url")) /\ PostScrape(body)) =>
              /\ res'.status = 400
              /\ scrapeJobs' = scrapeJobs
              /\ post' = post
              /\ run' = run
              /\ calls' = calls]_vars

C14_Witness ==
    /\ res = Reply(400, Str(<<"Invalid URL. Please provide a valid HTTP or HTTPS URL.">>))
    /\ JobCount = 1
    /\ DOMAIN run = {1}

\* C15 as claimed: whatever the page and maxContentLength, the content
\* scrapeWebsite returns is at most maxContentLength + 3 characters long, and it
\* differs from the normalized content (the marker was appended) only when that
\* was longer than maxContentLength.
C15_ContentBounded ==
    rout # Undef =>
        LET given == Get(rin.options, "maxContentLength")
            maxContentLength == IF given = Undef THEN DefaultMaxContentLength ELSE given.v
            content == Get(rout, "content").v
        IN  /\ Len(content) <= maxContentLength + Len(TruncationMarker)
            /\ content # cleanup(rin.page.content) =>
                   Len(cleanup(rin.page.content)) > maxContentLength

\* the selectors of the two groups that match in the document
SpecificMatches(doc) == {i \in DOMAIN doc.matches : i <= SpecificSelectors}
GenericMatches(doc) == {i \in DOMAIN doc.matches : i > SpecificSelectors}
Lowest(S) == CHOOSE i \in S : \A j \in S : i <= j

\* C16 as claimed: with extractMainContent on, a document that matches a
\* domain-specific and a generic selector has the text of a domain-specific match
\* selected.
C16_SpecificWins ==
    (rout # Undef /\ rin.extractMainContent
       /\ SpecificMatches(rin.doc) # {} /\ GenericMatches(rin.doc) # {}) =>
        \E i \in SpecificMatches(rin.doc) : rout = rin.doc.matches[i]

\* C16, amended: with extractMainContent on, a document that matches a generic
\* selector and a domain-specific selector whose text is longer than 100
\* characters has the text of the first such domain-specific match selected.
C16_SufficientSpecificWins ==
    LET long == {i \in SpecificMatches(rin.doc) : rin.doc.matches[i].length > MinMainLength}
    IN  (rout # Undef /\ rin.extractMainContent
           /\ long # {} /\ GenericMatches(rin.doc) # {}) =>
            rout = rin.doc.matches[Lowest(long)]

C16_Witness ==
    /\ rout # Undef /\ rin.extractMainContent
    /\ \E i \in SpecificMatches(rin.doc), j \in SpecificMatches(rin.doc),
           k \in GenericMatches(rin.doc) :
          /\ i < j
          /\ rin.doc.matches[i].length = MinMainLength
          /\ rin.doc.matches[j].length > MinMainLength
          /\ rin.doc.matches[k].length > MinMainLength
          /\ rout = rin.doc.matches[j]

\* C17: createRawFormattedContent returns a non-empty string whenever the cleaned
\* content it is given is non-empty, whatever the headings and whichever of the
\* heading pass and the sentence pass produced output.
C17_NeverEmpty ==
    (rout # Undef /\ TextLen(rin.content) > 0) => TextLen(rout.v) > 0

C17_Witness ==
    /\ rout # Undef
    /\ rin.content # <<>>
    /\ rout.v = rin.content
    /\ \E h \in 1..Len(rin.doc) : ScannedHeading(rin.doc[h])

\* the siblings after the heading at h, up to the next heading
Following(doc, h) ==
    {j \in (h + 1)..Len(doc) : \A k \in (h + 1)..j : doc[k].tag \notin HeadingTags}
BlocksAfter(doc, h) == {j \in Following(doc, h) : doc[j].tag \in BlockTags}
ElementLen(doc, j) == TextLen(Trim(doc[j].text))

RECURSIVE TotalLen(_, _)
TotalLen(doc, S) ==
    IF S = {} THEN 0
    ELSE LET j == CHOOSE x \in S : TRUE IN ElementLen(doc, j) + TotalLen(doc, S \ {j})

RECURSIVE Joined(_, _, _)
\* the texts of the elements S from j on in document order, each followed by a space
Joined(doc, S, j) ==
    IF j > Len(doc) THEN <<>>
    ELSE (IF j \in S THEN Trim(doc[j].text) \o <<Ws(" ", 1)>> ELSE <<>>)
         \o Joined(doc, S, j + 1)

\* the joined texts, trimmed, with whitespace runs and repeated characters collapsed
BodyText(doc, S) == CollapseRuns(CollapseWs(Trim(Joined(doc, S, 1))))

Contains(t, part) ==
    \E i \in 0..(Len(t) - Len(part)) : SubSeq(t, i + 1, i + Len(part)) = part

HeadingLine(doc, h) == <<W("##", 2), Ws(" ", 1)>> \o Trim(doc[h].text) \o <<Ws("\n", 1)>>

KeptAfter(doc, h) ==
    {j \in BlocksAfter(doc, h) :
        /\ ElementLen(doc, j) > BlockMin
        /\ TotalLen(doc, {i \in BlocksAfter(doc, h) :
                              i < j /\ ElementLen(doc, i) > BlockMin}) < AccumulateMax}

C19_RawWhenAsked ==
    \A id \in DOMAIN scrapeJobs :
        scrapeJobs[id].status = StCompleted =>
            LET raw == Get(scrapeJobs[id].metadata, "rawFormatted")
            IN  IF Truthy(OptGet(calls[id].asked, "rawFormatted"))
                THEN raw.t = "string"
                ELSE raw = Undef

\* C20 as claimed: every job that enters processing eventually is completed or
\* failed, the renderer call and the LLM calls of its pipeline being bounded by
\* the job's timeout.
C20_ProcessingEnds ==
    \A id \in 1..MaxTimedJobs :
        (id \in DOMAIN scrapeJobs /\ scrapeJobs[id].status = StProcessing)
            ~> (id \in DOMAIN scrapeJobs /\ Terminal(scrapeJobs[id].status))

\* the updates processWebsite makes
PipelineUpdates == {[status |-> StProcessing], FailedUpdate(Throw("x"), 0)}

\* C21: an accepted submission creates one job under an identifier no job had
\* and leaves the other records alone; every job has either its handler about to
\* start its run or one run, started once and never restarted; a step that
\* changes a job's record is a step of that job's own run and of no other; and
\* updateScrapeJob on an identifier that is absent changes nothing and returns
\* undefined.
C21_OwnRecordOnly ==
    [][/\ DOMAIN scrapeJobs \subseteq DOMAIN scrapeJobs'
       /\ \A body \in CoreBodies :
             (Accepted(body) /\ PostScrape(body)) =>
                 \E id \in DOMAIN scrapeJobs' :
                     /\ id \notin DOMAIN scrapeJobs
                     /\ DOMAIN scrapeJobs' = DOMAIN scrapeJobs \cup {id}
                     /\ \A k \in DOMAIN scrapeJobs : scrapeJobs'[k] = scrapeJobs[k]
       /\ post' \cap DOMAIN run' = {}
       /\ post' \cup DOMAIN run' = DOMAIN scrapeJobs'
       /\ post' \subseteq post \cup (DOMAIN scrapeJobs' \ DOMAIN scrapeJobs)
       /\ \A id \in DOMAIN run :
             /\ id \in DOMAIN run'
             /\ run'[id].pc = "started" => run[id].pc = "started"
       /\ \A k \in DOMAIN scrapeJobs :
             scrapeJobs'[k] # scrapeJobs[k] =>
                 /\ k \in DOMAIN run'
                 /\ k \in DOMAIN run => run'[k] # run[k]
                 /\ \A j \in DOMAIN run' \ {k} : j \in DOMAIN run /\ run'[j] = run[j]
       /\ \A id \in 1..(MaxJobs + 1) : \A upd \in PipelineUpdates :
             id \notin DOMAIN scrapeJobs' =>
                 /\ updateScrapeJob(scrapeJobs', id, upd) = scrapeJobs'
                 /\ updateScrapeJobResult(scrapeJobs', id, upd) = Undef]_vars

C21_Witness ==
    /\ JobCount = 2
    /\ DOMAIN run = {1, 2}
    /\ scrapeJobs[1].status = StProcessing
    /\ run[1].pc = "organizing"
    /\ scrapeJobs[2].status = StFailed

\* C22: scrapeWebsite is invoked at most once per job and organizeContent (with
\* its detection call and its main call) at most once per job; a job whose
\* scrape failed never has organizeContent invoked; and once a run has caught an
\* error it invokes nothing more and writes nothing more.
C22_NoRetry ==
    [][\A id \in DOMAIN calls' :
          /\ calls'[id].scrape <= 1
          /\ calls'[id].detect <= 1
          /\ calls'[id].main <= 1
          /\ (id \in DOMAIN run' /\ run'[id].error = Throw("Failed to scrape website")) =>
                 calls'[id].detect = 0 /\ calls'[id].main = 0
          /\ (id \in DOMAIN run /\ IsThrow(run[id].error)) =>
                 /\ calls'[id] = calls[id]
                 /\ run'[id] = run[id]
                 /\ scrapeJobs'[id] = scrapeJobs[id]]_vars

C22_Witness ==
    /\ DOMAIN run = {1, 2}
    /\ run[1].error = Throw("Failed to organize content with AI")
    /\ calls[1].scrape = 1 /\ calls[1].detect = 1 /\ calls[1].main = 1
    /\ run[2].error = Throw("Failed to scrape website")
    /\ calls[2].scrape = 1 /\ calls[2].detect = 0

\* C23: the step in which POST /api/scrape resumes after createScrapeJob sends
\* the reply {jobId, status: "processing"}: the job is in the store with a status
\* that is not terminal, its pipeline has not called the scraper yet, and the
\* reply is a function of the identifier alone, so it is the same whether the job
\* later completes or fails.
C23_RepliesBeforePipeline ==
    [][\A id \in 1..MaxJobs :
          PostScrapeResume(id) =>
              /\ res' = Reply(200, Obj([jobId |-> Num(id), status |-> StProcessing]))
              /\ id \in DOMAIN scrapeJobs'
              /\ ~Terminal(scrapeJobs'[id].status)
              /\ run'[id].pc = "started"
              /\ calls'[id].scrape = 0]_vars

C23_Witness ==
    /\ res = Reply(200, Obj([jobId |-> Num(2), status |-> StProcessing]))
    /\ scrapeJobs[2].status = StProcessing
    /\ scrapeJobs[1].status = StFailed

\* the selectors whose first match has more than 100 characters of trimmed text
LongMatches(doc) == {i \in DOMAIN doc.matches : doc.matches[i].length > MinMainLength}

\* C24: with extractMainContent on, the selected content is the text of the first
\* selector in list order whose match has more than 100 characters, whatever the
\* later ones hold; with no such selector it is the question-heading text when
\* that has more than 200 characters; otherwise it is the body text.
C24_FallbackChain ==
    (rout # Undef /\ rin.extractMainContent) =>
        IF LongMatches(rin.doc) # {}
        THEN rout = rin.doc.matches[Lowest(LongMatches(rin.doc))]
        ELSE IF rin.doc.qa.length > MinQaLength
        THEN rout = rin.doc.qa
        ELSE rout = rin.doc.body

C24_Witness ==
    /\ rout # Undef /\ rin.extractMainContent
    /\ \E i \in DOMAIN rin.doc.matches, j \in DOMAIN rin.doc.matches,
           k \in DOMAIN rin.doc.matches :
          /\ k < i /\ i < j
          /\ rin.doc.matches[k].length = MinMainLength
          /\ rin.doc.matches[j].length > rin.doc.matches[i].length
          /\ rout = rin.doc.matches[i]

\* the placeholder a missing title or summary is replaced by: a non-empty string
Placeholder(v) == v.t = "string" /\ v.v # <<>>

\* C25 as claimed: the StructuredContent organizeContent returns is the LLM's
\* result repaired field by field: a missing title or summary is a placeholder,
\* sections that are missing or not a list are the empty list, a missing wordCount
\* is the token count of the raw content, sectionCount and topicCount are computed
\* from the sections returned, and a missing confidence is 0.8.
C25_RepairedFieldByField ==
    [][\A id \in DOMAIN run : \A outcome \in LlmOutcomes :
          (MainCallSettles(id, outcome) /\ scrapeJobs'[id].status = StCompleted) =>
              LET result == outcome.json
                  given == Get(result, "metadata")
                  sc == scrapeJobs'[id].structuredContent
                  md == Get(sc, "metadata")
                  rawContent == Get(run[id].scraped, "content")
              IN  /\ Get(result, "title") = Undef => Placeholder(Get(sc, "title"))
                  /\ Get(result, "summary") = Undef => Placeholder(Get(sc, "summary"))
                  /\ Get(sc, "sections").t = "array"
                  /\ Get(result, "sections").t # "array" => Get(sc, "sections") = Arr(<<>>)
                  /\ OptGet(given, "wordCount") = Undef =>
                         Get(md, "wordCount") = Num(SplitLength(rawContent.v))
                  /\ Get(md, "sectionCount") = Num(Len(Get(sc, "sections").v))
                  /\ Get(md, "topicCount") = Num(TopicSum(Get(sc, "sections").v))
                  /\ OptGet(given, "confidence") = Undef =>
                         Get(md, "confidence") = Num(DefaultConfidenceLegacy)]_vars

\* C26: when scrapeWebsite has returned or thrown, no browser session of it is
\* open: one that was launched has been closed, on the return and after a
\* failure to open a page, a navigation error, a timeout or an extraction error
\* alike; and no step leaves the function with its session still open.
C26_BrowserClosed ==
    [][rout'.pc = "done" =>
          /\ rout'.browser # "open"
          /\ rout'.cause # "launch" => (rout.browser = "open" /\ rout'.browser = "closed")
          /\ rout'.pending = rout.pending]_vars

C26_Witness ==
    /\ rout.pc = "done"
    /\ rout.cause = "timeout"
    /\ IsThrow(rout.pending)
    /\ rout.browser = "closed"

RECURSIVE Tokens(_)
\* the number of whitespace-delimited tokens of a string: its maximal runs of
\* characters that are not whitespace
Tokens(s) ==
    IF s = <<>> THEN 0
    ELSE (IF ~IsWs(s[1]) /\ (Len(s) = 1 \/ IsWs(s[2])) THEN 1 ELSE 0) + Tokens(Tail(s))

\* C27 as claimed: metadata.wordCount of what scrapeWebsite returns is the number
\* of whitespace-delimited tokens of the returned content, the content after
\* cleanup and truncation, for every such content, the empty one included.
C27_WordCountIsTokens ==
    rout # Undef =>
        Get(Get(rout, "metadata"), "wordCount") = Num(Tokens(Get(rout, "content").v))

ResultFields ==
    {"structuredContent", "originalContent", "wordCount", "processingTime", "completedAt"}

\* a job record as a client reads it: completed with every result field set, or
\* pending or processing with every result field null
Readable(job) ==
    /\ job.status = StCompleted =>
           \A f \in ResultFields : job[f].t \notin {"null", "undefined"}
    /\ job.status \in {StPending, StProcessing} =>
           \A f \in ResultFields : job[f] = JNull

\* C28: in every state, each job in the store that is completed has
\* structuredContent, originalContent, wordCount, processingTime and completedAt
\* set, and each job that is pending or processing has all of them null; and the
\* record GET /api/scrape/:jobId replies with is such a record.
C28_ResultsWithStatus ==
    /\ \A id \in DOMAIN scrapeJobs : Readable(scrapeJobs[id])
    /\ (res.status = 200 /\ res.req.route = "job") => Readable(res.body.v)

C28_Witness ==
    /\ res.status = 200 /\ res.req.route = "job"
    /\ res.body.v.status = StCompleted
    /\ res.body.v.wordCount = Num(0)
    /\ res.body.v.originalContent.t = "string"

ReadRoutes == {"job", "download", "recent"}

\* C29: a step that answers a status request, a recent-jobs request or a
\* download request, served or rejected, for a job that exists or not, leaves
\* every job record as it was and creates none, starts and moves no pipeline
\* run; and a status or download request for an identifier that is not in the
\* store is answered 404.
C29_ReadsDoNotWrite ==
    [][(res'.status # 0 /\ res'.req.route \in ReadRoutes) =>
          /\ scrapeJobs' = scrapeJobs
          /\ run' = run
          /\ post' = post
          /\ updates' = updates
          /\ (res'.req.route # "recent" /\ res'.req.id \notin DOMAIN scrapeJobs) =>
                 /\ res'.status = 404
                 /\ res'.body = Str(<<"Scrape job not found">>)]_vars

C29_Witness ==
    /\ res.status = 404
    /\ res.req.route = "download"
    /\ JobCount = 1
    /\ scrapeJobs[1].status = StCompleted

\* C30: when the classification call of organizeContent throws, the step leaves
\* the job's record as it was and the run without an error, with isQandA false
\* (the general prompt) and the main call made, once; the classification call
\* and the main call are never made twice; and a job that fails after its
\* classification call does so on the settling of its main call.
C30_DetectionFailureSwallowed ==
    [][\A id \in DOMAIN run :
          /\ DetectionSettles(id, "throw") =>
                 /\ scrapeJobs' = scrapeJobs
                 /\ run'[id].pc = "organizing"
                 /\ run'[id].error = Undef
                 /\ ~run'[id].isQandA
                 /\ calls'[id].main = 1
          /\ calls'[id].detect <= 1 /\ calls'[id].main <= 1
          /\ (calls[id].detect = 1 /\ scrapeJobs'[id].status = StFailed
                /\ scrapeJobs[id].status # StFailed) =>
                 (run[id].pc = "organizing" /\ calls[id].main = 1)]_vars

C30_Witness ==
    /\ 1 \in DOMAIN scrapeJobs
    /\ scrapeJobs[1].status = StCompleted
    /\ calls[1].detect = 1
    /\ calls[1].main = 1

====
